---- MODULE Spec2Model ----
(***************************************************************************)
(* WBS tree store (wbs_nodes table), the node routes that write it (add,   *)
(* move, delete) and the TreeView client that mirrors it optimistically.   *)
(***************************************************************************)
EXTENDS Integers, Sequences, FiniteSets, TLC

\* ---------------------------------------------------------------- bounds
MaxId == 3        \* serial ids handed out by the wbs_nodes table
MaxLevel == 2     \* cap on the stored level column
MaxCorruptOps == 1 \* requests served while the table holds a parentId cycle
MaxOrderIdx == 3  \* cap on the stored orderIdx column
MaxFlat == 3      \* length of a flat list handed to buildTree

Ids == 1..MaxId
Projects == {1, 2}
NULL == 0
Relations == {"above", "below", "inside"}
PositionTypes == Relations \cup {"other"}
Names == {"a", "b"}

ProjectId == 2    \* the project the TreeView is opened on (prop projectId)
TempId == -1      \* id of an optimistically added node
OptimisticOrderIdx == 9999

\* the wbs_nodes table, its id sequence, the last route response
VARIABLES store, nextId, resp, corruptOps

\* TreeView state: nodes, the ['tree', projectId] query data, mutations that
\* were dispatched and whose callback has not fired, the loading flags, a
\* scheduled run of the tree effect, a refetch under way, the node whose
\* name input is open
VARIABLES nodes, treeData, requests, isTreeOperationLoading, loadingStates,
          effectPending, refetching, editing

srvVars == <<store, nextId, resp, corruptOps>>
cliVars == <<nodes, treeData, requests, isTreeOperationLoading, loadingStates,
             effectPending, refetching, editing>>

\* a call of a TreeUtils function: the flat list handed to buildTree, the tree
\* value a call works on and returns, the call last made, and the objects
\* and arrays behind the tree values: the argument's and the result's
VARIABLES flatNodes, workTree, call, heap

utilVars == <<flatNodes, workTree, call, heap>>

\* the move request being served, statement by statement: the position of
\* the handler, its locals, the steps it has finished and the table as the
\* handler found it
VARIABLES moveRun

stepVars == <<moveRun>>
vars == <<srvVars, cliVars, utilVars, stepVars>>

\* ------------------------------------------------------- table wbs_nodes
NodeRow(projectId, parentId, name, orderIdx, level) ==
  [projectId |-> projectId, parentId |-> parentId, name |-> name,
   orderIdx |-> orderIdx, level |-> level, wbsCode |-> <<>>]

\* where(parentId ? eq(parentId) : isNull(parentId))
Siblings(s, parentId) == {i \in DOMAIN s : s[i].parentId = parentId}

\* orderBy(wbsNodes.orderIdx): ascending, rows of equal orderIdx by id
RECURSIVE SortByOrder(_, _)
SortByOrder(s, S) ==
  IF S = {} THEN <<>>
  ELSE LET m == CHOOSE x \in S : \A y \in S :
                   \/ s[x].orderIdx < s[y].orderIdx
                   \/ (s[x].orderIdx = s[y].orderIdx /\ x <= y)
       IN <<m>> \o SortByOrder(s, S \ {m})

\* Array.prototype.findIndex, 0-based, -1 when absent
FindIndex(seq, x) ==
  IF \E i \in DOMAIN seq : seq[i] = x
  THEN (CHOOSE i \in DOMAIN seq : seq[i] = x /\ \A j \in 1..(i-1) : seq[j] # x) - 1
  ELSE -1

\* proper ancestors of id along parentId
RECURSIVE AncestorsFrom(_, _, _)
AncestorsFrom(s, id, seen) ==
  LET p == s[id].parentId IN
  IF p = NULL \/ p \notin DOMAIN s \/ p \in seen THEN seen
  ELSE AncestorsFrom(s, p, seen \cup {p})

Ancestors(s, id) == AncestorsFrom(s, id, {})

\* the while (currentNode) walk of generateWbsCode never reaches null
WalkDiverges(s, id) == \E a \in {id} \cup Ancestors(s, id) : a \in Ancestors(s, a)

\* path from the root to id (root first); defined when the walk ends
RECURSIVE PathToNode(_, _)
PathToNode(s, id) ==
  LET p == s[id].parentId IN
  IF p = NULL \/ p \notin DOMAIN s THEN <<id>>
  ELSE Append(PathToNode(s, p), id)

\* generateWbsCode: the dotted code as its sequence of 1-indexed ranks
generateWbsCode(s, id) ==
  LET path == PathToNode(s, id) IN
  [i \in DOMAIN path |->
     FindIndex(SortByOrder(s, Siblings(s, s[path[i]].parentId)), path[i]) + 1]

\* findDescendants: every node below parentId
RECURSIVE DescendantsFrom(_, _, _)
DescendantsFrom(s, frontier, seen) ==
  LET next == {c \in DOMAIN s : s[c].parentId \in frontier} \ seen IN
  IF next = {} THEN seen ELSE DescendantsFrom(s, next, seen \cup next)

findDescendants(s, parentId) == DescendantsFrom(s, {parentId}, {})

\* findDescendants recurses without end (call stack exhausted)
DescendantsOverflow(s, nodeId) ==
  \E d \in {nodeId} \cup findDescendants(s, nodeId) : d \in findDescendants(s, d)

\* updateWbsCodesRecursive, when neither traversal fails
updateWbsCodesRecursive(s, nodeId) ==
  LET nodesToUpdate == {nodeId} \cup findDescendants(s, nodeId) IN
  [i \in DOMAIN s |->
     IF i \in nodesToUpdate THEN [s[i] EXCEPT !.wbsCode = generateWbsCode(s, i)]
     ELSE s[i]]

\* reorderNodes
\* a reindex that numbers the siblings from 1
reorderNodesFromOne(s, parentId) ==
  LET siblings == SortByOrder(s, Siblings(s, parentId)) IN
  [i \in DOMAIN s |->
     IF s[i].parentId = parentId
     THEN [s[i] EXCEPT !.orderIdx = FindIndex(siblings, i) + 1]
     ELSE s[i]]

reorderNodes(s, parentId) ==
  LET siblings == SortByOrder(s, Siblings(s, parentId)) IN
  [i \in DOMAIN s |->
     IF s[i].parentId = parentId
     THEN [s[i] EXCEPT !.orderIdx = FindIndex(siblings, i)]
     ELSE s[i]]

\* ------------------------------------------------ POST /api/nodes/move
\* switch (position.type): newParentId, newLevel, insertPosition
newParentIdOf(s, targetId, type) ==
  IF type = "inside" THEN targetId ELSE s[targetId].parentId

newLevelOf(s, targetId, type) ==
  IF type = "inside" THEN s[targetId].level + 1 ELSE s[targetId].level

insertPositionOf(s, targetId, type) ==
  CASE type = "above"  -> s[targetId].orderIdx
    [] type = "below"  -> s[targetId].orderIdx + 1
    [] type = "inside" -> Cardinality(Siblings(s, targetId))

\* "If moving within same parent, adjust insertion position if needed"
\* the insert position without the same-parent adjustment
insertPositionUnadjusted(s, nodeId, targetId, type) ==
  insertPositionOf(s, targetId, type)

adjustedInsertPosition(s, nodeId, targetId, type) ==
  LET ins == insertPositionOf(s, targetId, type) IN
  IF s[nodeId].parentId = newParentIdOf(s, targetId, type) /\ s[nodeId].orderIdx < ins
  THEN ins - 1 ELSE ins

\* STEP 1: close the gap among the current siblings (skipped at root level)
closeGap(s, nodeId) ==
  IF s[nodeId].parentId # NULL
  THEN [i \in DOMAIN s |->
          IF s[i].parentId = s[nodeId].parentId /\ s[i].orderIdx > s[nodeId].orderIdx
          THEN [s[i] EXCEPT !.orderIdx = @ - 1] ELSE s[i]]
  ELSE s

\* STEP 2: make space in the new sibling group
makeSpace(s, nodeId, newParentId, insertPosition) ==
  [i \in DOMAIN s |->
     IF s[i].parentId = newParentId /\ i # nodeId /\ s[i].orderIdx >= insertPosition
     THEN [s[i] EXCEPT !.orderIdx = @ + 1] ELSE s[i]]

\* STEP 3: update the moved node
updateMovedNode(s, nodeId, newParentId, insertPosition, newLevel) ==
  [s EXCEPT ![nodeId] = [@ EXCEPT !.parentId = newParentId,
                                  !.orderIdx = insertPosition,
                                  !.level = newLevel]]

\* STEP 4: reorder the old parent if different and not root, then the new one
cleanUpOrder(s, oldParentId, newParentId) ==
  LET s1 == IF oldParentId # newParentId /\ oldParentId # NULL
            THEN reorderNodes(s, oldParentId) ELSE s
  IN reorderNodes(s1, newParentId)

\* STEP 1 to STEP 4 on the rows read at the start of the request
moveWrites(s, nodeId, targetId, type) ==
  LET newParentId == newParentIdOf(s, targetId, type)
      newLevel == newLevelOf(s, targetId, type)
      ins == adjustedInsertPosition(s, nodeId, targetId, type)
      s1 == closeGap(s, nodeId)
      s2 == makeSpace(s1, nodeId, newParentId, ins)
      s3 == updateMovedNode(s2, nodeId, newParentId, ins, newLevel)
  IN cleanUpOrder(s3, s[nodeId].parentId, newParentId)

\* validation of the move request; "" when the request passes
moveRejection(s, nodeId, targetId, type) ==
  CASE nodeId = 0 \/ targetId = 0 -> "400"
    [] nodeId = targetId -> "400"
    [] nodeId \notin DOMAIN s -> "404"
    [] targetId \notin DOMAIN s -> "404"
    [] type = "inside" /\ s[nodeId].parentId = targetId -> "400"
    [] type \notin Relations -> "400"
    [] OTHER -> ""

\* the whole handler: resulting rows and response status
moveOutcome(s, nodeId, targetId, type) ==
  LET rej == moveRejection(s, nodeId, targetId, type) IN
  IF rej # "" THEN [store |-> s, status |-> rej]
  ELSE LET s4 == moveWrites(s, nodeId, targetId, type) IN
       IF DescendantsOverflow(s4, nodeId) THEN [store |-> s4, status |-> "500"]
       ELSE IF WalkDiverges(s4, nodeId) THEN [store |-> s4, status |-> "hang"]
       ELSE [store |-> updateWbsCodesRecursive(s4, nodeId), status |-> "200"]

\* ------------------------- POST /api/nodes/move (app/api/nodes/move/route.ts)
\* 'inside': the orderIdx of the first child by orderIdx, plus one
routeNewOrderIdx(s, targetId) ==
  LET children == SortByOrder(s, Siblings(s, targetId)) IN
  IF Len(children) > 0 THEN s[children[1]].orderIdx + 1 ELSE 0

\* the validation of this route: required fields, both rows exist, not itself
routeMoveRejection(s, nodeId, targetId) ==
  CASE nodeId = 0 \/ targetId = 0 -> "400"
    [] nodeId \notin DOMAIN s -> "404"
    [] targetId \notin DOMAIN s -> "404"
    [] nodeId = targetId -> "400"
    [] OTHER -> ""

\* the single update of the moved node; a position type the switch does not
\* know leaves newParentId null, newOrderIdx 0 and newLevel 0
routeMoveWrite(s, nodeId, targetId, type) ==
  IF type = "inside"
  THEN updateMovedNode(s, nodeId, targetId, routeNewOrderIdx(s, targetId),
                       s[targetId].level + 1)
  ELSE updateMovedNode(s, nodeId, NULL, 0, 0)

\* 'above' and 'below' first shift the siblings with set orderIdx =
\* wbsNodes.orderIdx + 1, a column object plus a number: the statement cannot
\* bind an integer and the catch block answers 500 before any row is written
routeMoveOutcome(s, nodeId, targetId, type) ==
  LET rej == routeMoveRejection(s, nodeId, targetId) IN
  IF rej # "" THEN [store |-> s, status |-> rej]
  ELSE IF type \in {"above", "below"} THEN [store |-> s, status |-> "500"]
  ELSE LET s1 == routeMoveWrite(s, nodeId, targetId, type) IN
       IF DescendantsOverflow(s1, nodeId) THEN [store |-> s1, status |-> "500"]
       ELSE IF WalkDiverges(s1, nodeId) THEN [store |-> s1, status |-> "hang"]
       ELSE [store |-> updateWbsCodesRecursive(s1, nodeId), status |-> "200"]

\* ----------------------------------------------------- POST /api/nodes
nextOrderIdxCount(s, parentId) == Cardinality(Siblings(s, parentId))

nextOrderIdx(s, parentId) ==
  LET sib == Siblings(s, parentId) IN
  IF sib = {} THEN 0
  ELSE (CHOOSE m \in {s[i].orderIdx : i \in sib} :
          \A i \in sib : s[i].orderIdx <= m) + 1

levelFor(s, parentId) ==
  IF parentId # NULL /\ parentId \in DOMAIN s THEN s[parentId].level + 1 ELSE 0

insertRow(s, id, row) == [i \in DOMAIN s \cup {id} |-> IF i = id THEN row ELSE s[i]]

addOutcome(s, id, projectId, parentId, name) ==
  IF projectId = 0 \/ name = "" THEN [store |-> s, status |-> "400"]
  ELSE IF parentId # NULL /\ parentId \notin DOMAIN s
       THEN [store |-> s, status |-> "500"]   \* parent_id foreign key
  ELSE LET s1 == insertRow(s, id, NodeRow(projectId, parentId, name,
                                         nextOrderIdx(s, parentId),
                                         levelFor(s, parentId)))
       IN IF WalkDiverges(s1, id) THEN [store |-> s1, status |-> "hang"]
          ELSE [store |-> [s1 EXCEPT ![id].wbsCode = generateWbsCode(s1, id)],
                status |-> "201"]

\* -------------------------------------------- DELETE /api/nodes/[nodeId]
\* db.delete where id; parent_id references wbs_nodes.id ON DELETE CASCADE
deleteRowsNoCascade(s, id) == [i \in DOMAIN s \ {id} |-> s[i]]

deleteRows(s, id) ==
  LET gone == IF id \in DOMAIN s THEN {id} \cup findDescendants(s, id) ELSE {} IN
  [i \in DOMAIN s \ gone |-> s[i]]

\* ----------------------------------------------- PUT /api/nodes/[nodeId]
\* update ... set name where id; no row updated is a 404
updateRow(s, id, name) ==
  [i \in DOMAIN s |-> IF i = id THEN [s[i] EXCEPT !.name = name] ELSE s[i]]

\* ------------------------------------------- GET /api/tree/[projectId]
RECURSIVE RowsOf(_, _)
RowsOf(s, order) ==
  IF order = <<>> THEN <<>>
  ELSE LET i == Head(order) IN
       <<[id |-> i, projectId |-> s[i].projectId, parentId |-> s[i].parentId,
          name |-> s[i].name, orderIdx |-> s[i].orderIdx, level |-> s[i].level,
          wbsCode |-> s[i].wbsCode]>> \o RowsOf(s, Tail(order))

\* select where projectId order by orderIdx
getTree(s, pid) == RowsOf(s, SortByOrder(s, {i \in DOMAIN s : s[i].projectId = pid}))

\* ------------------------------------------------- TreeUtils (tree-utils)
TreeNode(row, children) ==
  [id |-> row.id, projectId |-> row.projectId, parentId |-> row.parentId,
   name |-> row.name, orderIdx |-> row.orderIdx, level |-> row.level,
   wbsCode |-> row.wbsCode, children |-> children]

\* a sort that turns around the elements of equal orderIdx
RECURSIVE sortChildrenTiesReversed(_)
sortChildrenTiesReversed(list) ==
  IF list = <<>> THEN <<>>
  ELSE LET x == Head(list)
           rest == sortChildrenTiesReversed(Tail(list))
           before == SelectSeq(rest, LAMBDA y : y.orderIdx <= x.orderIdx)
           after == SelectSeq(rest, LAMBDA y : y.orderIdx > x.orderIdx)
       IN before \o <<x>> \o after

\* Array.prototype.sort by orderIdx (stable)
RECURSIVE sortChildren(_)
sortChildren(list) ==
  IF list = <<>> THEN <<>>
  ELSE LET x == Head(list)
           rest == sortChildren(Tail(list))
           before == SelectSeq(rest, LAMBDA y : y.orderIdx < x.orderIdx)
           after == SelectSeq(rest, LAMBDA y : y.orderIdx >= x.orderIdx)
       IN before \o <<x>> \o after

\* the nodes attached under parentId, each with its own children attached
RECURSIVE attachChildren(_, _)
attachChildren(list, parentId) ==
  LET kids == SelectSeq(list, LAMBDA r : r.parentId = parentId) IN
  sortChildren([k \in DOMAIN kids |-> TreeNode(kids[k], attachChildren(list, kids[k].id))])

\* roots are the rows with parentId null; a row whose parent is not in the
\* list, or whose parentId chain does not reach a root, is in no root's subtree
buildTree(list) == attachChildren(list, NULL)

RECURSIVE flattenTree(_)
flattenTree(roots) ==
  IF roots = <<>> THEN <<>>
  ELSE <<Head(roots)>> \o flattenTree(Head(roots).children) \o flattenTree(Tail(roots))

RECURSIVE addNodeLocally(_, _, _)
addNodeLocally(tree, parentId, newNode) ==
  [k \in DOMAIN tree |->
     LET node == tree[k] IN
     IF node.id = parentId THEN [node EXCEPT !.children = Append(@, newNode)]
     ELSE IF Len(node.children) > 0
          THEN [node EXCEPT !.children = addNodeLocally(@, parentId, newNode)]
          ELSE node]

\* the tree without the nodes whose id is nodeId
RECURSIVE removeNode(_, _)
removeNode(tree, nodeId) ==
  IF tree = <<>> THEN <<>>
  ELSE LET node == Head(tree)
           rest == removeNode(Tail(tree), nodeId)
       IN IF node.id = nodeId THEN rest
          ELSE IF Len(node.children) > 0
               THEN <<[node EXCEPT !.children = removeNode(@, nodeId)]>> \o rest
               ELSE <<node>> \o rest

\* the nodes removeNode drops, in the order it meets them
RECURSIVE removedNodes(_, _)
removedNodes(tree, nodeId) ==
  IF tree = <<>> THEN <<>>
  ELSE LET node == Head(tree) IN
       (IF node.id = nodeId THEN <<node>> ELSE removedNodes(node.children, nodeId))
         \o removedNodes(Tail(tree), nodeId)

RECURSIVE insertNode(_, _, _)
insertNode(tree, targetId, nodeToMove) ==
  [k \in DOMAIN tree |->
     LET node == tree[k] IN
     IF node.id = targetId
     THEN [node EXCEPT !.children = Append(@, [nodeToMove EXCEPT !.parentId = node.id])]
     ELSE IF Len(node.children) > 0
          THEN [node EXCEPT !.children = insertNode(@, targetId, nodeToMove)]
          ELSE node]

\* an insertion that always goes after the target
RECURSIVE insertSiblingAfter(_, _, _, _)
insertSiblingAfter(tree, targetId, type, nodeToMove) ==
  LET hits == {k \in DOMAIN tree : tree[k].id = targetId} IN
  IF hits # {}
  THEN LET idx == CHOOSE k \in hits : \A h \in hits : k <= h
       IN SubSeq(tree, 1, idx)
            \o <<[nodeToMove EXCEPT !.parentId = tree[idx].parentId]>>
            \o SubSeq(tree, idx + 1, Len(tree))
  ELSE [k \in DOMAIN tree |->
          [tree[k] EXCEPT !.children = insertSiblingAfter(@, targetId, type, nodeToMove)]]

RECURSIVE insertSibling(_, _, _, _)
insertSibling(tree, targetId, type, nodeToMove) ==
  LET hits == {k \in DOMAIN tree : tree[k].id = targetId} IN
  IF hits # {}
  THEN LET idx == CHOOSE k \in hits : \A h \in hits : k <= h
           insertAt == IF type = "above" THEN idx ELSE idx + 1
       IN SubSeq(tree, 1, insertAt - 1)
            \o <<[nodeToMove EXCEPT !.parentId = tree[idx].parentId]>>
            \o SubSeq(tree, insertAt, Len(tree))
  ELSE [k \in DOMAIN tree |->
          [tree[k] EXCEPT !.children = insertSibling(@, targetId, type, nodeToMove)]]

moveNodeLocally(tree, nodeId, targetId, type) ==
  LET found == removedNodes(tree, nodeId)
      newTree == removeNode(tree, nodeId)
  IN IF found = <<>> THEN tree
     ELSE IF type = "inside" THEN insertNode(newTree, targetId, found[Len(found)])
     ELSE insertSibling(newTree, targetId, type, found[Len(found)])

\* ------------------------------------- the helpers on the object graph
\* cells: the objects and arrays allocated so far, addressed by position.
\* A node object holds its fields and a reference to its children array; an
\* array holds references to node objects.
ArrayCell(items) == [kind |-> "array", items |-> items]
NodeCell(node, children) ==
  [kind |-> "node", row |-> [node EXCEPT !.children = <<>>], children |-> children]

\* the object graph of a tree value: result of buildTree, or a literal
RECURSIVE storeItems(_, _)
storeItems(cells, list) ==
  IF list = <<>> THEN [cells |-> cells, refs |-> <<>>]
  ELSE LET kids == storeItems(cells, Head(list).children)
           c1 == Append(kids.cells, ArrayCell(kids.refs))
           c2 == Append(c1, NodeCell(Head(list), Len(c1)))
           rest == storeItems(c2, Tail(list))
       IN [cells |-> rest.cells, refs |-> <<Len(c2)>> \o rest.refs]

storeTree(cells, list) ==
  LET r == storeItems(cells, list)
  IN [cells |-> Append(r.cells, ArrayCell(r.refs)), ref |-> Len(r.cells) + 1]

\* the tree value reachable from an array reference
RECURSIVE loadTree(_, _)
loadTree(cells, ref) ==
  [k \in DOMAIN cells[ref].items |->
     LET cell == cells[cells[ref].items[k]]
     IN [cell.row EXCEPT !.children = loadTree(cells, cell.children)]]

\* { ...node, children: [...node.children, newNode] } done on the node itself
spreadWithChildInPlace(cells, ref, newRef) ==
  [cells |-> [cells EXCEPT ![cells[ref].children].items = Append(@, newRef)],
   ref |-> ref]

\* { ...node, children: [...node.children, newNode] }
spreadWithChild(cells, ref, newRef) ==
  LET c1 == Append(cells, ArrayCell(Append(cells[cells[ref].children].items, newRef)))
      c2 == Append(c1, [cells[ref] EXCEPT !.children = Len(c1)])
  IN [cells |-> c2, ref |-> Len(c2)]

\* { ...node, children: ref of a new array }
spreadWithChildren(cells, ref, childrenRef) ==
  LET c1 == Append(cells, [cells[ref] EXCEPT !.children = childrenRef])
  IN [cells |-> c1, ref |-> Len(c1)]

\* { ...nodeToMove, parentId }
spreadWithParent(cells, ref, parentId) ==
  LET c1 == Append(cells, [cells[ref] EXCEPT !.row.parentId = parentId])
  IN [cells |-> c1, ref |-> Len(c1)]

\* addNodeLocally: helper(nodes) = nodes.map(...)
RECURSIVE heapAddItems(_, _, _, _)
RECURSIVE heapAddHelper(_, _, _, _)
heapAddItems(cells, refs, parentId, newRef) ==
  IF refs = <<>> THEN [cells |-> cells, refs |-> <<>>]
  ELSE LET ref == Head(refs)
           one == IF cells[ref].row.id = parentId
                  THEN spreadWithChild(cells, ref, newRef)
                  ELSE IF Len(cells[cells[ref].children].items) > 0
                       THEN LET r == heapAddHelper(cells, cells[ref].children, parentId, newRef)
                            IN spreadWithChildren(r.cells, ref, r.ref)
                       ELSE [cells |-> cells, ref |-> ref]
           rest == heapAddItems(one.cells, Tail(refs), parentId, newRef)
       IN [cells |-> rest.cells, refs |-> <<one.ref>> \o rest.refs]

heapAddHelper(cells, arrayRef, parentId, newRef) ==
  LET r == heapAddItems(cells, cells[arrayRef].items, parentId, newRef)
  IN [cells |-> Append(r.cells, ArrayCell(r.refs)), ref |-> Len(r.cells) + 1]

heapAddNodeLocally(cells, treeRef, parentId, newRef) ==
  heapAddHelper(cells, treeRef, parentId, newRef)

\* moveNodeLocally: removeNode(nodes) = nodes.reduce(..., []); found is nodeToMove
RECURSIVE heapRemoveItems(_, _, _, _)
RECURSIVE heapRemoveNode(_, _, _, _)
heapRemoveItems(cells, refs, nodeId, found) ==
  IF refs = <<>> THEN [cells |-> cells, refs |-> <<>>, found |-> found]
  ELSE LET ref == Head(refs)
           one == IF cells[ref].row.id = nodeId
                  THEN [cells |-> cells, refs |-> <<>>, found |-> ref]
                  ELSE IF Len(cells[cells[ref].children].items) > 0
                       THEN LET r == heapRemoveNode(cells, cells[ref].children, nodeId, found)
                                c == spreadWithChildren(r.cells, ref, r.ref)
                            IN [cells |-> c.cells, refs |-> <<c.ref>>, found |-> r.found]
                       ELSE [cells |-> cells, refs |-> <<ref>>, found |-> found]
           rest == heapRemoveItems(one.cells, Tail(refs), nodeId, one.found)
       IN [cells |-> rest.cells, refs |-> one.refs \o rest.refs, found |-> rest.found]

heapRemoveNode(cells, arrayRef, nodeId, found) ==
  LET r == heapRemoveItems(cells, cells[arrayRef].items, nodeId, found)
  IN [cells |-> Append(r.cells, ArrayCell(r.refs)), ref |-> Len(r.cells) + 1,
      found |-> r.found]

\* moveNodeLocally: insertNode(nodes) = nodes.map(...)
RECURSIVE heapInsertItems(_, _, _, _)
RECURSIVE heapInsertNode(_, _, _, _)
heapInsertItems(cells, refs, targetId, moveRef) ==
  IF refs = <<>> THEN [cells |-> cells, refs |-> <<>>]
  ELSE LET ref == Head(refs)
           one == IF cells[ref].row.id = targetId
                  THEN LET copy == spreadWithParent(cells, moveRef, cells[ref].row.id)
                       IN spreadWithChild(copy.cells, ref, copy.ref)
                  ELSE IF Len(cells[cells[ref].children].items) > 0
                       THEN LET r == heapInsertNode(cells, cells[ref].children, targetId, moveRef)
                            IN spreadWithChildren(r.cells, ref, r.ref)
                       ELSE [cells |-> cells, ref |-> ref]
           rest == heapInsertItems(one.cells, Tail(refs), targetId, moveRef)
       IN [cells |-> rest.cells, refs |-> <<one.ref>> \o rest.refs]

heapInsertNode(cells, arrayRef, targetId, moveRef) ==
  LET r == heapInsertItems(cells, cells[arrayRef].items, targetId, moveRef)
  IN [cells |-> Append(r.cells, ArrayCell(r.refs)), ref |-> Len(r.cells) + 1]

\* moveNodeLocally: insertSibling(nodes)
RECURSIVE heapInsertSiblingItems(_, _, _, _, _)
RECURSIVE heapInsertSibling(_, _, _, _, _)
heapInsertSiblingItems(cells, refs, targetId, type, moveRef) ==
  IF refs = <<>> THEN [cells |-> cells, refs |-> <<>>]
  ELSE LET ref == Head(refs)
           r == heapInsertSibling(cells, cells[ref].children, targetId, type, moveRef)
           one == spreadWithChildren(r.cells, ref, r.ref)
           rest == heapInsertSiblingItems(one.cells, Tail(refs), targetId, type, moveRef)
       IN [cells |-> rest.cells, refs |-> <<one.ref>> \o rest.refs]

heapInsertSibling(cells, arrayRef, targetId, type, moveRef) ==
  LET items == cells[arrayRef].items
      hits == {k \in DOMAIN items : cells[items[k]].row.id = targetId}
  IN IF hits # {}
     THEN LET idx == CHOOSE k \in hits : \A h \in hits : k <= h
              insertAt == IF type = "above" THEN idx ELSE idx + 1
              copy == spreadWithParent(cells, moveRef, cells[items[idx]].row.parentId)
              newNodes == SubSeq(items, 1, insertAt - 1) \o <<copy.ref>>
                            \o SubSeq(items, insertAt, Len(items))
          IN [cells |-> Append(copy.cells, ArrayCell(newNodes)), ref |-> Len(copy.cells) + 1]
     ELSE LET r == heapInsertSiblingItems(cells, items, targetId, type, moveRef)
          IN [cells |-> Append(r.cells, ArrayCell(r.refs)), ref |-> Len(r.cells) + 1]

heapMoveNodeLocally(cells, treeRef, nodeId, targetId, type) ==
  LET removed == heapRemoveNode(cells, treeRef, nodeId, 0)
  IN IF removed.found = 0 THEN [cells |-> removed.cells, ref |-> treeRef]
     ELSE IF type = "inside"
          THEN heapInsertNode(removed.cells, removed.ref, targetId, removed.found)
          ELSE heapInsertSibling(removed.cells, removed.ref, targetId, type, removed.found)

\* ------------------------------------------------------------- requests
\* the last response; a rejected request (400, 404) reports only its status
\* rows: the number of rows a delete statement removed
NoResp == [op |-> "none", status |-> "", nodeId |-> 0, targetId |-> 0, type |-> "",
           rows |-> 0]

Response(op, status, nodeId, targetId, type, rows) ==
  IF status \in {"400", "404"}
  THEN [op |-> op, status |-> status, nodeId |-> 0, targetId |-> 0, type |-> "",
        rows |-> 0]
  ELSE [op |-> op, status |-> status, nodeId |-> nodeId, targetId |-> targetId,
        type |-> type, rows |-> rows]

\* some row's parentId chain never reaches null
Corrupted(s) == \E i \in DOMAIN s : WalkDiverges(s, i)

\* the table after a request, within the bounds of the model
Serve(s) ==
  /\ Corrupted(store) => corruptOps < MaxCorruptOps
  /\ \A i \in DOMAIN s : s[i].level <= MaxLevel /\ s[i].orderIdx <= MaxOrderIdx
  /\ store' = s
  /\ corruptOps' = IF Corrupted(store) /\ Corrupted(s) THEN corruptOps + 1 ELSE 0

\* --------------------------------------------------------------- TreeView
NoLoading == [updating |-> {}, deleting |-> {}, adding |-> {}, moving |-> {}]

\* the synthetic project root the tree effect wraps the query data in
projectTreeNode(children) ==
  [id |-> ProjectId, projectId |-> ProjectId, parentId |-> NULL, name |-> "P",
   orderIdx |-> 0, level |-> 0, wbsCode |-> <<1, 0>>, children |-> children]

NoMove ==
  [pc |-> "idle", nodeId |-> 0, targetId |-> 0, type |-> "", oldParentId |-> 0,
   newParentId |-> 0, newLevel |-> 0, insertPosition |-> 0, done |-> {},
   before |-> <<>>]
NoHeap == [cells |-> <<>>, tree |-> 0, newNode |-> 0, result |-> 0]
NoCall == [fn |-> "none", nodeId |-> 0, targetId |-> 0, type |-> ""]

\* an empty table and a TreeView that has loaded it
InitEmpty ==
  /\ store = <<>>
  /\ nextId = 1
  /\ resp = NoResp
  /\ corruptOps = 0
  /\ treeData = <<>>
  /\ nodes = <<projectTreeNode(<<>>)>>
  /\ requests = <<>>
  /\ isTreeOperationLoading = FALSE
  /\ loadingStates = NoLoading
  /\ effectPending = FALSE
  /\ refetching = FALSE
  /\ editing = 0

Init ==
  /\ InitEmpty
  /\ flatNodes = <<>>
  /\ workTree = <<>>
  /\ call = NoCall
  /\ heap = NoHeap
  /\ moveRun = NoMove

MoveNode(nodeId, targetId, type) ==
  LET out == moveOutcome(store, nodeId, targetId, type) IN
  /\ Serve(out.store)
  /\ resp' = Response("move", out.status, nodeId, targetId, type, 0)
  /\ UNCHANGED nextId

AddNode(projectId, parentId, name) ==
  LET out == addOutcome(store, nextId, projectId, parentId, name) IN
  /\ nextId <= MaxId
  /\ Serve(out.store)
  /\ nextId' = IF out.store = store THEN nextId ELSE nextId + 1
  /\ resp' = Response("add", out.status, nextId, parentId, "", 0)

DeleteNode(id) ==
  /\ Serve(deleteRows(store, id))
  /\ resp' = Response("delete", "200", id, 0, "",
                      Cardinality(DOMAIN store) - Cardinality(DOMAIN deleteRows(store, id)))
  /\ UNCHANGED nextId

UpdateNode(id, name) ==
  LET found == id \in DOMAIN store IN
  /\ Serve(IF found THEN updateRow(store, id, name) ELSE store)
  /\ resp' = Response("update", IF found THEN "200" ELSE "404", id, 0, "", 0)
  /\ UNCHANGED nextId

\* requests that fail the handlers' required-field checks
BadRequest ==
  \/ AddNode(0, NULL, "a")
  \/ AddNode(1, NULL, "")
  \/ MoveNode(0, 1, "above")
  \/ MoveNode(1, 0, "above")
  \/ MoveNode(1, 2, "other")

\* the routes under arbitrary requests
Next ==
  \/ (\E parentId \in Ids \cup {NULL} : AddNode(1, parentId, "a")) /\ UNCHANGED <<cliVars, utilVars, stepVars>>
  \/ (\E nodeId \in Ids, targetId \in Ids, type \in Relations :
        MoveNode(nodeId, targetId, type)) /\ UNCHANGED <<cliVars, utilVars, stepVars>>
  \/ (\E id \in Ids : DeleteNode(id)) /\ UNCHANGED <<cliVars, utilVars, stepVars>>
  \/ BadRequest /\ UNCHANGED <<cliVars, utilVars, stepVars>>

Spec == Init /\ [][Next]_vars

\* the move route of app/api/nodes/move/route.ts
RouteMoveNode(nodeId, targetId, type) ==
  LET out == routeMoveOutcome(store, nodeId, targetId, type) IN
  /\ Serve(out.store)
  /\ resp' = Response("move", out.status, nodeId, targetId, type, 0)
  /\ UNCHANGED nextId

\* the routes as they are mounted under app/api, under arbitrary requests
RouteNext ==
  \/ (\E parentId \in Ids \cup {NULL} : AddNode(1, parentId, "a")) /\ UNCHANGED <<cliVars, utilVars, stepVars>>
  \/ (\E nodeId \in Ids \cup {0}, targetId \in Ids, type \in PositionTypes :
        RouteMoveNode(nodeId, targetId, type)) /\ UNCHANGED <<cliVars, utilVars, stepVars>>
  \/ (\E id \in Ids : DeleteNode(id)) /\ UNCHANGED <<cliVars, utilVars, stepVars>>

RouteSpec == Init /\ [][RouteNext]_vars

\* ------------------------------------------------- TreeView and TreeNode
Request(op, nodeId, targetId, type, name) ==
  [op |-> op, nodeId |-> nodeId, targetId |-> targetId, type |-> type, name |-> name,
   phase |-> "sent"]

RemoveAt(seq, i) == SubSeq(seq, 1, i - 1) \o SubSeq(seq, i + 1, Len(seq))

hasAnyLoading(id) ==
  id \in (loadingStates.updating \cup loadingStates.deleting
            \cup loadingStates.adding \cup loadingStates.moving)

isTreeDisabled == isTreeOperationLoading

\* the test every TreeNode handler starts with: hasAnyLoading || isTreeDisabled
interactionBlockedPerNode(id) == hasAnyLoading(id)

interactionBlocked(id) == hasAnyLoading(id) \/ isTreeDisabled

isProjectNode(node) == node.id = ProjectId

\* a pointer event reaches a handler once scheduled effects have run; an open
\* name input loses the focus first (onBlur = handleSaveEdit)
PointerFree == ~effectPending /\ editing = 0

\* mutate(): onMutate applies the optimistic tree and sets the loading flags;
\* setPreservedExpandedNodes(new Set(..)) schedules the tree effect
Mutate(request, optimistic, kind, ids) ==
  /\ requests' = Append(requests, request)
  /\ nodes' = optimistic
  /\ loadingStates' = [loadingStates EXCEPT ![kind] = @ \cup ids]
  /\ isTreeOperationLoading' = TRUE
  /\ effectPending' = TRUE
  /\ UNCHANGED <<treeData, refetching, srvVars>>

handleAddChildFromMenu(k, name) ==
  LET node == flattenTree(nodes)[k]
      apiParentId == IF node.id = ProjectId THEN NULL ELSE node.id
      shownUnder == IF apiParentId = NULL THEN ProjectId ELSE apiParentId
      newNode == [id |-> TempId, projectId |-> ProjectId, parentId |-> apiParentId,
                  name |-> name, orderIdx |-> OptimisticOrderIdx, level |-> 1,
                  wbsCode |-> <<>>, children |-> <<>>]
  IN /\ PointerFree
     /\ ~interactionBlocked(node.id)
     /\ nextId <= MaxId
     /\ Mutate(Request("add", 0, apiParentId, "", name),
               addNodeLocally(nodes, shownUnder, newNode), "adding", {shownUnder})
     /\ UNCHANGED editing

handleDeleteFromMenu(k) ==
  LET node == flattenTree(nodes)[k] IN
  /\ PointerFree
  /\ ~(isProjectNode(node) \/ interactionBlocked(node.id))
  /\ Mutate(Request("delete", node.id, 0, "", ""), nodes, "deleting", {node.id})
  /\ UNCHANGED editing

handleEdit(k) ==
  LET node == flattenTree(nodes)[k] IN
  /\ PointerFree
  /\ ~(isProjectNode(node) \/ interactionBlocked(node.id))
  /\ editing' = node.id
  /\ UNCHANGED <<srvVars, nodes, treeData, requests, isTreeOperationLoading,
                 loadingStates, effectPending, refetching>>

\* Enter, or the input losing the focus, with editValue in the input
handleSaveEdit(k, editValue) ==
  LET node == flattenTree(nodes)[k] IN
  /\ ~effectPending
  /\ editing # 0 /\ node.id = editing
  /\ editing' = 0
  /\ IF editValue # "" /\ editValue # node.name /\ node.id # ProjectId
     THEN Mutate(Request("update", node.id, 0, "", editValue), nodes, "updating",
                 {node.id})
     ELSE UNCHANGED <<srvVars, nodes, treeData, requests, isTreeOperationLoading,
                      loadingStates, effectPending, refetching>>

\* the positions handleDragOver offers on a node
dropPositions(node) ==
  {"above", "below"} \cup (IF Len(node.children) > 0 THEN {"inside"} ELSE {})

\* drag the k-th rendered node and drop it on the t-th
handleDrop(k, t, type) ==
  LET dragged == flattenTree(nodes)[k]
      node == flattenTree(nodes)[t]
  IN /\ PointerFree
     /\ ~(isProjectNode(dragged) \/ interactionBlocked(dragged.id))
     /\ dragged.id # node.id
     /\ ~interactionBlocked(node.id)
     /\ type \in dropPositions(node)
     /\ ~(type = "inside" /\ dragged.parentId = node.id)
     /\ Mutate(Request("move", dragged.id, node.id, type, ""),
               moveNodeLocally(nodes, dragged.id, node.id, type), "moving",
               {dragged.id, node.id})
     /\ UNCHANGED editing

\* the route serves the i-th outstanding request; response.ok is a 2xx status
ServerHandle(i) ==
  LET r == requests[i] IN
  /\ r.phase = "sent"
  /\ \/ r.op = "add" /\ AddNode(ProjectId, r.targetId, r.name)
     \/ r.op = "move" /\ MoveNode(r.nodeId, r.targetId, r.type)
     \/ r.op = "delete" /\ DeleteNode(r.nodeId)
     \/ r.op = "update" /\ UpdateNode(r.nodeId, r.name)
  /\ requests' = [requests EXCEPT ![i].phase =
                    IF resp'.status \in {"200", "201"} THEN "ok"
                    ELSE IF resp'.status = "hang" THEN "hung" ELSE "failed"]
  /\ UNCHANGED <<nodes, treeData, isTreeOperationLoading, loadingStates,
                 effectPending, refetching, editing>>

\* onSuccess: refetchTree()
onSuccess(i) ==
  /\ ~effectPending
  /\ requests[i].phase = "ok"
  /\ requests' = RemoveAt(requests, i)
  /\ refetching' = TRUE
  /\ UNCHANGED <<srvVars, nodes, treeData, isTreeOperationLoading, loadingStates,
                 effectPending, editing>>

\* a failure callback that leaves the loading flags as they are
onErrorKeepsLoading(i) ==
  /\ ~effectPending
  /\ requests[i].phase = "failed"
  /\ requests' = RemoveAt(requests, i)
  /\ UNCHANGED <<srvVars, nodes, treeData, effectPending, refetching, editing,
                 isTreeOperationLoading, loadingStates>>

\* onError: the loading flags are cleared, nothing is fetched
onError(i) ==
  /\ ~effectPending
  /\ requests[i].phase = "failed"
  /\ requests' = RemoveAt(requests, i)
  /\ isTreeOperationLoading' = FALSE
  /\ loadingStates' = NoLoading
  /\ UNCHANGED <<srvVars, nodes, treeData, effectPending, refetching, editing>>

\* the refetch settles: new query data, then the .then() of onSuccess
refetchSettled ==
  /\ ~effectPending
  /\ refetching
  /\ treeData' = buildTree(getTree(store, ProjectId))
  /\ refetching' = FALSE
  /\ isTreeOperationLoading' = FALSE
  /\ loadingStates' = NoLoading
  /\ effectPending' = TRUE
  /\ UNCHANGED <<srvVars, nodes, requests, editing>>

\* an effect that leaves the tree the client holds as it is
treeEffectKeepsNodes ==
  /\ effectPending
  /\ effectPending' = FALSE
  /\ UNCHANGED <<srvVars, nodes, treeData, requests, isTreeOperationLoading,
                 loadingStates, refetching, editing>>

\* useEffect([project, treeData, preservedExpandedNodes])
treeEffect ==
  /\ effectPending
  /\ nodes' = <<projectTreeNode(treeData)>>
  /\ effectPending' = FALSE
  /\ UNCHANGED <<srvVars, treeData, requests, isTreeOperationLoading, loadingStates,
                 refetching, editing>>

\* one TreeView on project ProjectId; the routes serve only what it sends
ClientNext ==
  \/ (\E k \in DOMAIN flattenTree(nodes) : handleAddChildFromMenu(k, "a"))
       /\ UNCHANGED <<utilVars, stepVars>>
  \/ (\E k \in DOMAIN flattenTree(nodes) : handleDeleteFromMenu(k)) /\ UNCHANGED <<utilVars, stepVars>>
  \/ (\E k \in DOMAIN flattenTree(nodes) : handleEdit(k)) /\ UNCHANGED <<utilVars, stepVars>>
  \/ (\E k \in DOMAIN flattenTree(nodes), editValue \in Names \cup {""} :
        handleSaveEdit(k, editValue)) /\ UNCHANGED <<utilVars, stepVars>>
  \/ (\E k \in DOMAIN flattenTree(nodes), t \in DOMAIN flattenTree(nodes),
        type \in Relations : handleDrop(k, t, type)) /\ UNCHANGED <<utilVars, stepVars>>
  \/ (\E i \in DOMAIN requests : ServerHandle(i)) /\ UNCHANGED <<utilVars, stepVars>>
  \/ (\E i \in DOMAIN requests : onSuccess(i)) /\ UNCHANGED <<utilVars, stepVars>>
  \/ (\E i \in DOMAIN requests : onError(i)) /\ UNCHANGED <<utilVars, stepVars>>
  \/ refetchSettled /\ UNCHANGED <<utilVars, stepVars>>
  \/ treeEffect /\ UNCHANGED <<utilVars, stepVars>>

ClientSpec == Init /\ [][ClientNext]_vars

\* the callbacks of an answered request, the settling of the refetch and the
\* effect are queued on the event loop and run; the server is not bound to
\* answer and the user is not bound to act
mutationCallbacks ==
  (\/ \E i \in DOMAIN requests : onSuccess(i)
   \/ \E i \in DOMAIN requests : onError(i)) /\ UNCHANGED <<utilVars, stepVars>>

\* weak fairness of refetchSettled, written out: the action is enabled
\* exactly when the refetch is under way and no effect is pending
refetchFairness ==
  (<>[](refetching /\ ~effectPending))
    => []<><<refetchSettled /\ UNCHANGED <<utilVars, stepVars>>>>_vars

ClientFairSpec ==
  /\ ClientSpec
  /\ WF_vars(mutationCallbacks)
  /\ WF_vars(treeEffect /\ UNCHANGED <<utilVars, stepVars>>)
  /\ refetchFairness

\* --------------------------- POST /api/nodes/move, statement by statement
\* one request at a time; the handler runs its steps in the order of the
\* source, each await finishing before the next statement starts
Idle == moveRun.pc = "idle"

\* a step order that starts the code propagation right after STEP 3
nextStepCodesFirst(pc) ==
  CASE pc = "step1" -> "step2"
    [] pc = "step2" -> "step3"
    [] pc = "step3" -> "step5"
    [] pc = "step4old" -> "step4new"
    [] pc = "step4new" -> "step5"
    [] pc = "step5" -> "idle"

\* the statement that follows in the handler's text
nextStep(pc) ==
  CASE pc = "step1" -> "step2"
    [] pc = "step2" -> "step3"
    [] pc = "step3" -> "step4old"
    [] pc = "step4old" -> "step4new"
    [] pc = "step4new" -> "step5"
    [] pc = "step5" -> "idle"

Advance == [moveRun EXCEPT !.pc = nextStep(@), !.done = @ \cup {moveRun.pc}]

\* validation and position computation; a rejected request is answered here
BeginMove(nodeId, targetId, type) ==
  LET rej == moveRejection(store, nodeId, targetId, type) IN
  /\ Idle
  /\ Corrupted(store) => corruptOps < MaxCorruptOps
  /\ \A i \in DOMAIN moveOutcome(store, nodeId, targetId, type).store :
       /\ moveOutcome(store, nodeId, targetId, type).store[i].level <= MaxLevel
       /\ moveOutcome(store, nodeId, targetId, type).store[i].orderIdx <= MaxOrderIdx
  /\ IF rej # ""
     THEN /\ resp' = Response("move", rej, nodeId, targetId, type, 0)
          /\ moveRun' = NoMove
          /\ corruptOps' = IF Corrupted(store) THEN corruptOps + 1 ELSE 0
     ELSE /\ moveRun' = [pc |-> "step1", nodeId |-> nodeId, targetId |-> targetId,
                         type |-> type, oldParentId |-> store[nodeId].parentId,
                         newParentId |-> newParentIdOf(store, targetId, type),
                         newLevel |-> newLevelOf(store, targetId, type),
                         insertPosition |->
                           adjustedInsertPosition(store, nodeId, targetId, type),
                         done |-> {}, before |-> store]
          /\ UNCHANGED <<resp, corruptOps>>
  /\ UNCHANGED <<store, nextId>>

\* STEP 1: close the gap among the current siblings
Step1 ==
  /\ moveRun.pc = "step1"
  /\ store' = closeGap(store, moveRun.nodeId)
  /\ moveRun' = Advance
  /\ UNCHANGED <<nextId, resp, corruptOps>>

\* STEP 2: make space among the new siblings
Step2 ==
  /\ moveRun.pc = "step2"
  /\ store' = makeSpace(store, moveRun.nodeId, moveRun.newParentId, moveRun.insertPosition)
  /\ moveRun' = Advance
  /\ UNCHANGED <<nextId, resp, corruptOps>>

\* STEP 3: update the moved node
Step3 ==
  /\ moveRun.pc = "step3"
  /\ store' = updateMovedNode(store, moveRun.nodeId, moveRun.newParentId,
                              moveRun.insertPosition, moveRun.newLevel)
  /\ moveRun' = Advance
  /\ UNCHANGED <<nextId, resp, corruptOps>>

\* STEP 4, first half: reorder the old parent if different and not null
Step4Old ==
  /\ moveRun.pc = "step4old"
  /\ store' = IF moveRun.oldParentId # moveRun.newParentId /\ moveRun.oldParentId # NULL
              THEN reorderNodes(store, moveRun.oldParentId)
              ELSE store
  /\ moveRun' = Advance
  /\ UNCHANGED <<nextId, resp, corruptOps>>

\* STEP 4, second half: reorder the new parent
Step4New ==
  /\ moveRun.pc = "step4new"
  /\ store' = reorderNodes(store, moveRun.newParentId)
  /\ moveRun' = Advance
  /\ UNCHANGED <<nextId, resp, corruptOps>>

\* STEP 5: update the WBS codes, then answer
Step5 ==
  LET nodeId == moveRun.nodeId
      status == IF DescendantsOverflow(store, nodeId) THEN "500"
                ELSE IF WalkDiverges(store, nodeId) THEN "hang" ELSE "200"
  IN /\ moveRun.pc = "step5"
     /\ store' = IF status = "200" THEN updateWbsCodesRecursive(store, nodeId) ELSE store
     /\ resp' = Response("move", status, nodeId, moveRun.targetId, moveRun.type, 0)
     /\ corruptOps' = IF Corrupted(moveRun.before) /\ Corrupted(store') THEN corruptOps + 1
                      ELSE 0
     /\ moveRun' = [NoMove EXCEPT !.pc = nextStep(moveRun.pc)]
     /\ UNCHANGED nextId

StepNext ==
  \/ (\E parentId \in Ids \cup {NULL} : Idle /\ AddNode(1, parentId, "a"))
       /\ moveRun' = NoMove /\ UNCHANGED <<cliVars, utilVars>>
  \/ (\E id \in Ids : Idle /\ DeleteNode(id))
       /\ moveRun' = NoMove /\ UNCHANGED <<cliVars, utilVars>>
  \/ (\E nodeId \in Ids, targetId \in Ids, type \in Relations :
        BeginMove(nodeId, targetId, type)) /\ UNCHANGED <<cliVars, utilVars>>
  \/ Step1 /\ UNCHANGED <<cliVars, utilVars>>
  \/ Step2 /\ UNCHANGED <<cliVars, utilVars>>
  \/ Step3 /\ UNCHANGED <<cliVars, utilVars>>
  \/ Step4Old /\ UNCHANGED <<cliVars, utilVars>>
  \/ Step4New /\ UNCHANGED <<cliVars, utilVars>>
  \/ Step5 /\ UNCHANGED <<cliVars, utilVars>>

StepSpec == Init /\ [][StepNext]_vars

\* ------------------------------------------------ calls of TreeUtils
\* flat lists of rows with unique ids, in any order, with any parentId (a
\* missing parent, itself, a cycle) and with orderIdx ties
FlatIds == 1..MaxFlat
FlatOrders == {0, 1}

FlatRow(id, parentId, orderIdx) ==
  [id |-> id, projectId |-> ProjectId, parentId |-> parentId, name |-> "a",
   orderIdx |-> orderIdx, level |-> 0, wbsCode |-> <<>>]

FlatRows ==
  {FlatRow(id, parentId, orderIdx) :
     id \in FlatIds, parentId \in FlatIds \cup {NULL}, orderIdx \in FlatOrders}

FlatLists ==
  {l \in UNION {[1..n -> FlatRows] : n \in 0..MaxFlat} :
     \A i, j \in DOMAIN l : i # j => l[i].id # l[j].id}

UtilInit ==
  /\ InitEmpty
  /\ flatNodes \in FlatLists
  /\ workTree = <<>>
  /\ call = NoCall
  /\ heap = NoHeap
  /\ moveRun = NoMove

\* TreeUtils.buildTree(flatNodes)
CallBuildTree ==
  /\ call.fn = "none"
  /\ workTree' = buildTree(flatNodes)
  /\ call' = [NoCall EXCEPT !.fn = "buildTree"]
  /\ heap' = LET stored == storeTree(<<>>, workTree')
             IN [cells |-> stored.cells, tree |-> stored.ref, newNode |-> 0,
                 result |-> stored.ref]
  /\ UNCHANGED <<flatNodes, srvVars, cliVars, stepVars>>

\* TreeUtils.buildTree(TreeUtils.flattenTree(tree)) on a tree buildTree returned
CallRoundTrip ==
  /\ call.fn = "buildTree"
  /\ workTree' = buildTree(flattenTree(workTree))
  /\ call' = [NoCall EXCEPT !.fn = "roundTrip"]
  /\ UNCHANGED <<flatNodes, heap, srvVars, cliVars, stepVars>>

\* TreeUtils.moveNodeLocally(tree, nodeId, targetId, {type}) on a tree buildTree returned
CallMoveNodeLocally(nodeId, targetId, type) ==
  /\ call.fn = "buildTree"
  /\ workTree' = moveNodeLocally(workTree, nodeId, targetId, type)
  /\ call' = [fn |-> "moveNodeLocally", nodeId |-> nodeId, targetId |-> targetId, type |-> type]
  /\ heap' = LET r == heapMoveNodeLocally(heap.cells, heap.tree, nodeId, targetId, type)
             IN [heap EXCEPT !.cells = r.cells, !.result = r.ref]
  /\ UNCHANGED <<flatNodes, srvVars, cliVars, stepVars>>

\* the node an add shows before the server answers
optimisticNode(parentId) ==
  [id |-> TempId, projectId |-> ProjectId, parentId |-> parentId, name |-> "a",
   orderIdx |-> OptimisticOrderIdx, level |-> 1, wbsCode |-> <<>>, children |-> <<>>]

\* TreeUtils.addNodeLocally(tree, parentId, newNode) on a tree buildTree returned
CallAddNodeLocally(parentId) ==
  /\ call.fn = "buildTree"
  /\ workTree' = addNodeLocally(workTree, parentId, optimisticNode(parentId))
  /\ call' = [NoCall EXCEPT !.fn = "addNodeLocally", !.targetId = parentId]
  /\ heap' = LET new == storeItems(heap.cells, <<optimisticNode(parentId)>>)
                 r == heapAddNodeLocally(new.cells, heap.tree, parentId, new.refs[1])
             IN [heap EXCEPT !.cells = r.cells, !.newNode = new.refs[1], !.result = r.ref]
  /\ UNCHANGED <<flatNodes, srvVars, cliVars, stepVars>>

UtilNext ==
  \/ CallBuildTree
  \/ CallRoundTrip
  \/ \E nodeId \in FlatIds, targetId \in FlatIds, type \in PositionTypes :
       CallMoveNodeLocally(nodeId, targetId, type)
  \/ \E parentId \in FlatIds : CallAddNodeLocally(parentId)

UtilSpec == UtilInit /\ [][UtilNext]_vars

\* ------------------------------------------------------------ properties
TypeOK ==
  /\ DOMAIN store \subseteq Ids
  /\ nextId \in 1..(MaxId + 1)
  /\ corruptOps \in 0..MaxCorruptOps

\* rows of one sibling group never share an orderIdx
NoTies ==
  \A i, j \in DOMAIN store :
    (i # j /\ store[i].parentId = store[j].parentId) => store[i].orderIdx # store[j].orderIdx

Acyclic(s) == ~Corrupted(s)

LevelCorrect(s) ==
  \A n \in DOMAIN s :
    IF s[n].parentId = NULL THEN s[n].level = 0
    ELSE s[n].parentId \in DOMAIN s /\ s[n].level = s[s[n].parentId].level + 1

\* 1-indexed rank of n among the rows sharing its parentId, by orderIdx
RankOf(s, n) ==
  Cardinality({m \in Siblings(s, s[n].parentId) : s[m].orderIdx < s[n].orderIdx}) + 1

\* ranks of n's ancestors and of n, outermost first
RankPath(s, n) ==
  LET path == PathToNode(s, n) IN [i \in DOMAIN path |-> RankOf(s, path[i])]

CodeConsistent(s) ==
  Acyclic(s) /\ \A n \in DOMAIN s : s[n].wbsCode = RankPath(s, n)

\* orderIdx values of the group are exactly 0..n-1
Consecutive(s, parentId) ==
  LET g == Siblings(s, parentId) IN
  /\ {s[i].orderIdx : i \in g} = 0..(Cardinality(g) - 1)
  /\ \A i, j \in g : i # j => s[i].orderIdx # s[j].orderIdx

IsPrefix(p, q) == Len(p) <= Len(q) /\ \A i \in DOMAIN p : p[i] = q[i]

Completed == resp'.status \in {"200", "201"}

\* C1: a move 'inside' a proper descendant of the moved node is rejected with
\* an error and leaves every row as it was.
C1_InsideDescendantRejected ==
  [][\A n \in Ids, t \in Ids :
       (MoveNode(n, t, "inside") /\ n \in DOMAIN store /\ t \in findDescendants(store, n))
         => (resp'.status # "200" /\ store' = store)]_srvVars

C3_LevelCorrect ==
  [][(Completed /\ resp'.op \in {"add", "move"} /\ LevelCorrect(store))
       => LevelCorrect(store')]_srvVars

\* C4: every completed add, move or delete leaves every node's stored wbsCode equal
\* to the dot-joined ranks of the node and its ancestors.
C4_CodeConsistent ==
  [][(Completed /\ CodeConsistent(store)) => CodeConsistent(store')]_srvVars

\* C5: after every completed move the source sibling group (root level included)
\* and the destination sibling group have orderIdx values exactly 0..n-1.
C5_GroupsConsecutive ==
  [][\A n \in Ids, t \in Ids, ty \in Relations :
       (MoveNode(n, t, ty) /\ resp'.status = "200")
         => /\ Consecutive(store', store[n].parentId)
            /\ Consecutive(store', store'[n].parentId)]_srvVars

\* C6: root siblings X (orderIdx 0, code "1") and Y (orderIdx 1, code "2"):
\* moving Y above X ends with Y at orderIdx 0, code "1" and X at orderIdx 1, code "2".
C6_SwapRoots ==
  [][\A x \in Ids, y \in Ids :
       (/\ MoveNode(y, x, "above")
        /\ DOMAIN store = {x, y} /\ x # y
        /\ store[x].parentId = NULL /\ store[x].orderIdx = 0 /\ store[x].wbsCode = <<1>>
        /\ store[y].parentId = NULL /\ store[y].orderIdx = 1 /\ store[y].wbsCode = <<2>>)
         => /\ store'[y].orderIdx = 0 /\ store'[x].orderIdx = 1
            /\ store'[y].wbsCode = <<1>> /\ store'[x].wbsCode = <<2>>]_srvVars

\* C7: moving a node A that has children inside a childless node B (outside A's
\* subtree, on a table whose codes were consistent) succeeds with A.parentId = B,
\* A.level = B.level + 1, A.orderIdx = 0, A's code = B's code followed by .1, and
\* every descendant's code prefixed by A's new code.
C7_InsideChildless ==
  [][\A a \in Ids, b \in Ids :
       (/\ MoveNode(a, b, "inside")
        /\ a \in DOMAIN store /\ b \in DOMAIN store /\ a # b
        /\ CodeConsistent(store)
        /\ Siblings(store, a) # {} /\ Siblings(store, b) = {}
        /\ b \notin findDescendants(store, a))
         => /\ resp'.status = "200"
            /\ store'[a].parentId = b
            /\ store'[a].level = store'[b].level + 1
            /\ store'[a].orderIdx = 0
            /\ store'[a].wbsCode = Append(store'[b].wbsCode, 1)
            /\ \A d \in findDescendants(store', a) :
                 IsPrefix(store'[a].wbsCode, store'[d].wbsCode)]_srvVars

\* rows whose parentId chain passes through id
Subtree(s, id) == {i \in DOMAIN s : id \in {i} \cup Ancestors(s, i)}

\* C8: deleting N removes N and every node whose parentId chain reaches N, leaves
\* no row whose parentId refers to a missing row, and removes nothing else.
C8_CascadeDelete ==
  [][\A id \in Ids :
       DeleteNode(id)
         => /\ DOMAIN store' = DOMAIN store \ Subtree(store, id)
            /\ \A i \in DOMAIN store' : store'[i] = store[i]
            /\ \A i \in DOMAIN store' :
                 store'[i].parentId # NULL => store'[i].parentId \in DOMAIN store']_srvVars

\* a delete has removed a node together with at least one descendant
C8_Witness == resp.op = "delete" /\ resp.rows >= 2 /\ DOMAIN store # {}


\* what GET /api/tree shows of the table, wrapped as the tree effect wraps it
Projection(s) == <<projectTreeNode(buildTree(getTree(s, ProjectId)))>>

\* C9: when the failure callback of an add or a move has run, the tree the
\* client holds is the projection of the table; nothing of the optimistic
\* change is left and nothing the table holds is missing.
C9_FailureDiscardsOptimistic ==
  [][\A i \in DOMAIN requests :
       (onError(i) /\ requests[i].op \in {"add", "move"}) => nodes' = Projection(store')]_vars

\* C10: at most one add, update, delete or move is outstanding at any time, and
\* while one is outstanding the tree is disabled.
C10_OneMutationInFlight ==
  /\ Len(requests) <= 1
  /\ requests # <<>> => isTreeOperationLoading

\* a request is outstanding while two other persisted nodes are on screen
C10_Witness ==
  /\ Len(requests) = 1
  /\ isTreeOperationLoading
  /\ \E i, j \in DOMAIN store :
       /\ i # j
       /\ ~hasAnyLoading(i) /\ ~hasAnyLoading(j)
       /\ \E k, t \in DOMAIN flattenTree(nodes) :
            flattenTree(nodes)[k].id = i /\ flattenTree(nodes)[t].id = j

\* C11: a move onto itself, or 'inside' the node's present parent, is answered
\* 400 and writes nothing: the table after the request is the table before it.
C11_DoomedMoveWritesNothing ==
  [][\A n \in Ids, t \in Ids, ty \in Relations :
       (/\ RouteMoveNode(n, t, ty)
        /\ n \in DOMAIN store /\ t \in DOMAIN store
        /\ (n = t \/ (ty = "inside" /\ store[n].parentId = t)))
         => (resp'.status = "400" /\ store' = store)]_vars

\* C12: no delete and no move is dispatched for the project root's id, and the
\* project root is the one top-level element of the tree the client holds.
C12_ProjectRootFixed ==
  /\ \A i \in DOMAIN requests :
       requests[i].op \in {"delete", "move"} => requests[i].nodeId # ProjectId
  /\ Len(nodes) = 1
  /\ nodes[1].id = ProjectId

\* C13: an add that inserts a row gives it an orderIdx above every row of its
\* sibling group (0 in an empty group), the level of its parent plus one (0
\* under null) and, once answered, the code of its position; every other row
\* stays as it was.
C13_AddAppends ==
  [][\A parentId \in Ids \cup {NULL} :
       (AddNode(1, parentId, "a") /\ store' # store)
         => LET id == nextId
                row == store'[id]
            IN /\ id \notin DOMAIN store
               /\ DOMAIN store' = DOMAIN store \cup {id}
               /\ row.parentId = parentId
               /\ \A i \in Siblings(store, parentId) : store[i].orderIdx < row.orderIdx
               /\ Siblings(store, parentId) = {} => row.orderIdx = 0
               /\ row.level = IF parentId = NULL THEN 0 ELSE store[parentId].level + 1
               /\ resp'.status = "201" => row.wbsCode = RankPath(store', id)
               /\ \A i \in DOMAIN store : store'[i] = store[i]]_vars

\* a second child was appended under a parent
C13_Witness ==
  /\ resp.op = "add" /\ resp.status = "201"
  /\ resp.nodeId \in DOMAIN store
  /\ store[resp.nodeId].parentId # NULL
  /\ store[resp.nodeId].orderIdx >= 1

\* ids and order of the nodes at every level of a tree
RECURSIVE Shape(_)
Shape(roots) ==
  [k \in DOMAIN roots |-> [id |-> roots[k].id, children |-> Shape(roots[k].children)]]

\* C14: building the flattened result of buildTree gives a tree with the same
\* parent/child membership and the same sibling order at every level.
C14_FlattenBuildRoundTrip ==
  [][CallRoundTrip => Shape(workTree') = Shape(workTree)]_vars

\* a round trip of a tree with two levels and two siblings of equal orderIdx
C14_Witness ==
  /\ call.fn = "roundTrip"
  /\ \E k \in DOMAIN workTree :
       /\ Len(workTree[k].children) = 2
       /\ workTree[k].children[1].orderIdx = workTree[k].children[2].orderIdx
       /\ workTree[k].children[1].id > workTree[k].children[2].id

\* the ids of the nodes of a tree
NodeIds(tree) == {flattenTree(tree)[k].id : k \in DOMAIN flattenTree(tree)}

\* the first node of a tree with the given id, in document order
FindNode(tree, id) ==
  LET flat == flattenTree(tree)
      k == CHOOSE i \in DOMAIN flat : flat[i].id = id /\ \A j \in 1..(i - 1) : flat[j].id # id
  IN flat[k]

\* the root list and every children list of a tree
RECURSIVE SiblingLists(_)
SiblingLists(tree) ==
  {tree} \cup UNION {SiblingLists(tree[k].children) : k \in DOMAIN tree}

\* the list in which the node with the given id sits
SiblingListOf(tree, id) ==
  CHOOSE list \in SiblingLists(tree) : \E k \in DOMAIN list : list[k].id = id

\* C16: moveNodeLocally returns the tree it was given when no node has id
\* nodeId; otherwise, for a target outside the moved subtree, the node is
\* detached and sits once in the result: as the last child of the target
\* with parentId = targetId for 'inside', immediately before ('above') or
\* after ('below') the target in the target's list with the target's
\* parentId, with its own children, the rest of the tree being as it was.
C16_MoveNodeLocally ==
  [][\A n \in FlatIds, t \in FlatIds, ty \in Relations :
       CallMoveNodeLocally(n, t, ty) =>
         IF n \notin NodeIds(workTree) THEN workTree' = workTree
         ELSE LET node == FindNode(workTree, n) IN
              (t \in NodeIds(workTree) \ NodeIds(<<node>>)) =>
                LET target == FindNode(workTree, t)
                    moved == FindNode(workTree', n)
                    list == SiblingListOf(workTree', t)
                    flat == flattenTree(workTree')
                IN /\ Cardinality({k \in DOMAIN flat : flat[k].id = n}) = 1
                   /\ removeNode(workTree', n) = removeNode(workTree, n)
                   /\ moved.children = node.children
                   /\ ty = "inside" =>
                        /\ moved.parentId = t
                        /\ LET kids == FindNode(workTree', t).children
                           IN kids # <<>> /\ kids[Len(kids)] = moved
                   /\ ty = "above" =>
                        /\ moved.parentId = target.parentId
                        /\ \E k \in 1..(Len(list) - 1) : list[k] = moved /\ list[k + 1].id = t
                   /\ ty = "below" =>
                        /\ moved.parentId = target.parentId
                        /\ \E k \in 1..(Len(list) - 1) : list[k].id = t /\ list[k + 1] = moved]_vars

\* a root with a child of its own was moved above a node that has a sibling
\* before it, one level down
C16_Witness ==
  /\ call.fn = "moveNodeLocally"
  /\ call.type = "above"
  /\ call.nodeId \in NodeIds(buildTree(flatNodes))
  /\ call.targetId \in NodeIds(buildTree(flatNodes))
  /\ \E k \in DOMAIN workTree :
       /\ Len(workTree[k].children) = 2
       /\ workTree[k].children[1].id = call.nodeId
       /\ workTree[k].children[2].id = call.targetId
       /\ FindNode(buildTree(flatNodes), call.nodeId).parentId = NULL

\* a call of one of the two local update helpers
CallLocalUpdate ==
  \/ \E parentId \in FlatIds : CallAddNodeLocally(parentId)
  \/ \E nodeId \in FlatIds, targetId \in FlatIds, type \in PositionTypes :
       CallMoveNodeLocally(nodeId, targetId, type)

\* the objects and arrays the caller held before the call: the argument tree
\* and, for an add, the new node
CellsBefore ==
  IF call'.fn = "addNodeLocally"
  THEN storeItems(heap.cells, <<optimisticNode(call'.targetId)>>).cells
  ELSE heap.cells

\* C15: addNodeLocally and moveNodeLocally leave every object and array of
\* their argument as it was (every node's fields and every children list, at
\* every depth); what changed shows only in the tree they return.
C15_LocalUpdatesPure ==
  [][CallLocalUpdate =>
       /\ Len(heap'.cells) >= Len(CellsBefore)
       /\ SubSeq(heap'.cells, 1, Len(CellsBefore)) = CellsBefore
       /\ loadTree(heap'.cells, heap'.tree) = workTree
       /\ loadTree(heap'.cells, heap'.result) = workTree']_vars

\* an add under a node two levels down that had a child already
C15_Witness ==
  /\ call.fn = "addNodeLocally"
  /\ \E k \in DOMAIN workTree : \E j \in DOMAIN workTree[k].children :
       LET node == workTree[k].children[j] IN
       /\ node.id = call.targetId
       /\ Len(node.children) = 2
       /\ node.children[2].id = TempId

\* a move whose result shares no array with its argument and differs from it
C15_WitnessMove ==
  /\ call.fn = "moveNodeLocally"
  /\ call.type = "inside"
  /\ heap.result # heap.tree
  /\ workTree # buildTree(flatNodes)
  /\ loadTree(heap.cells, heap.tree) = buildTree(flatNodes)

\* the handler, run statement by statement, leaves the table and answers
\* as the request served in one piece does
StepsAgree ==
  [][Step5 =>
       LET out == moveOutcome(moveRun.before, moveRun.nodeId, moveRun.targetId, moveRun.type)
       IN store' = out.store /\ resp'.status = out.status]_vars

Reindexed(parentId) ==
  LET group == {i \in DOMAIN store : store[i].parentId = parentId} IN
  /\ DOMAIN store' = DOMAIN store
  /\ {i \in DOMAIN store' : store'[i].parentId = parentId} = group
  /\ {store'[i].orderIdx : i \in group} = 0..(Cardinality(group) - 1)
  /\ \A i, j \in group : i # j => store'[i].orderIdx # store'[j].orderIdx
  /\ \A i, j \in group :
       store[i].orderIdx < store[j].orderIdx => store'[i].orderIdx < store'[j].orderIdx
  /\ \A i \in DOMAIN store \ group :
       /\ store'[i].orderIdx = store[i].orderIdx
       /\ store'[i].parentId = store[i].parentId
       /\ store'[i].level = store[i].level

\* C18: after reorderNodes(P), for a parent id or null, the orderIdx values
\* of the rows with parentId = P are exactly 0..n-1, rows whose earlier
\* orderIdx values differed keep their relative order, and no row outside
\* the group has its orderIdx, parentId or level changed.
C18_ReorderNodes ==
  [][/\ (/\ moveRun.pc = "step4old" /\ moveRun'.pc = "step4new"
          /\ moveRun.oldParentId # moveRun.newParentId
          /\ moveRun.oldParentId # NULL) => Reindexed(moveRun.oldParentId)
     /\ (moveRun.pc = "step4new" /\ moveRun'.pc = "step5") =>
          Reindexed(moveRun.newParentId)]_vars

\* the reindex of the new parent's children has changed the rank STEP 3 gave
\* the moved node
C18_Witness ==
  /\ moveRun.pc = "step5"
  /\ store[moveRun.nodeId].orderIdx # moveRun.insertPosition

\* the reindex of the root level has run on a group of three
C18_WitnessNull ==
  /\ moveRun.pc = "step5"
  /\ moveRun.newParentId = NULL
  /\ Cardinality(Siblings(store, NULL)) = 3

\* the reindex of the old parent's children has run on the sibling left
C18_WitnessOld ==
  /\ moveRun.pc = "step4new"
  /\ moveRun.oldParentId \notin {NULL, moveRun.newParentId}
  /\ Siblings(store, moveRun.oldParentId) # {}

TreeEnabled == ~isTreeOperationLoading /\ loadingStates = NoLoading

\* a request has been answered, or its refetch is under way
RequestSettled ==
  \/ \E i \in DOMAIN requests : requests[i].phase \in {"ok", "failed"}
  \/ refetching

\* C20: once a dispatched mutation has been answered, the tree is eventually
\* enabled again: after the failure callback, or after the refetch that
\* follows a success has settled, isTreeOperationLoading is false and the
\* four loading sets are empty.
C20_EventuallyReenabled == RequestSettled ~> TreeEnabled

\* a failure callback has cleared the flags
C20_Witness ==
  /\ resp.status \in {"400", "404", "500"}
  /\ requests = <<>>
  /\ ~refetching
  /\ TreeEnabled

\* the refetch after a success has settled and cleared the flags
C20_WitnessSuccess ==
  /\ resp.status \in {"200", "201"}
  /\ requests = <<>>
  /\ ~refetching
  /\ TreeEnabled
  /\ treeData # <<>>

\* a successful add or move has been answered, its refetch has settled and
\* the effect has run
SuccessReconciled ==
  /\ resp.op \in {"add", "move"}
  /\ resp.status \in {"200", "201"}
  /\ requests = <<>>
  /\ ~refetching
  /\ ~effectPending

\* C21: once a successful add or move and its refetch have completed, the
\* tree the client holds is the project root wrapping buildTree of the
\* project's rows as the table holds them; no node has the temporary id or
\* the optimistic orderIdx.
C21_SuccessReconciles ==
  SuccessReconciled =>
    /\ nodes = Projection(store)
    /\ \A k \in DOMAIN flattenTree(nodes) :
         /\ flattenTree(nodes)[k].id # TempId
         /\ flattenTree(nodes)[k].orderIdx # OptimisticOrderIdx

\* a successful move has been reconciled into a tree of two levels
C21_Witness ==
  /\ SuccessReconciled
  /\ resp.op = "move"
  /\ \E k \in DOMAIN nodes[1].children : nodes[1].children[k].children # <<>>

\* ------------------------------------- PUT /api/nodes/[nodeId], any body
\* request bodies: one field each, non-structural (name) or structural
PutBodies ==
  {[name |-> n] : n \in Names}
    \cup {[parentId |-> p] : p \in Ids \cup {NULL}}
    \cup {[orderIdx |-> o] : o \in 0..MaxOrderIdx}

\* .set({ ...updates, updatedAt }) where id
applyUpdates(s, id, updates) ==
  [s EXCEPT ![id] = [f \in DOMAIN s[id] |->
                       IF f \in DOMAIN updates THEN updates[f] ELSE s[id][f]]]

\* 404 when no row has the id; a parentId that references no row fails the
\* foreign key and the statement writes nothing
putOutcome(s, id, updates) ==
  IF id \notin DOMAIN s THEN [store |-> s, status |-> "404"]
  ELSE IF /\ "parentId" \in DOMAIN updates
          /\ updates.parentId # NULL
          /\ updates.parentId \notin DOMAIN s
       THEN [store |-> s, status |-> "500"]
       ELSE [store |-> applyUpdates(s, id, updates), status |-> "200"]

PutNode(id, updates) ==
  LET out == putOutcome(store, id, updates) IN
  /\ Serve(out.store)
  /\ resp' = Response("update", out.status, id, 0, "", 0)
  /\ UNCHANGED nextId

\* every sibling group is numbered 0..n-1 and every code is the rank path
WellNumbered(s) ==
  /\ \A p \in DOMAIN s \cup {NULL} : Consecutive(s, p)
  /\ CodeConsistent(s)

\* a body with a structural field is sent only to a table whose numbering is
\* intact, so that what the table looks like afterwards is the update's doing
PutNext ==
  \/ (\E parentId \in Ids \cup {NULL} : AddNode(1, parentId, "a"))
       /\ UNCHANGED <<cliVars, utilVars, stepVars>>
  \/ (\E id \in Ids, updates \in PutBodies :
        /\ DOMAIN updates \cap {"parentId", "orderIdx"} # {} => WellNumbered(store)
        /\ PutNode(id, updates))
       /\ UNCHANGED <<cliVars, utilVars, stepVars>>
  \/ (\E id \in Ids : DeleteNode(id)) /\ UNCHANGED <<cliVars, utilVars, stepVars>>

PutSpec == Init /\ [][PutNext]_vars

\* C22: an update of non-structural fields changes no row's parentId,
\* orderIdx, level or wbsCode; an update that changes parentId or orderIdx
\* reindexes the sibling groups it affects and propagates the codes, so that
\* after it the groups are consecutive and the codes consistent.
C22_UpdateKeepsStructure ==
  [][\A id \in Ids, updates \in PutBodies :
       (PutNode(id, updates) /\ resp'.status = "200") =>
         IF DOMAIN updates \cap {"parentId", "orderIdx"} = {}
         THEN \A i \in DOMAIN store :
                /\ store'[i].parentId = store[i].parentId
                /\ store'[i].orderIdx = store[i].orderIdx
                /\ store'[i].level = store[i].level
                /\ store'[i].wbsCode = store[i].wbsCode
         ELSE WellNumbered(store) => WellNumbered(store')]_vars

\* every sibling group of the table is numbered 0..n-1
GroupsConsecutive(s) == \A p \in DOMAIN s \cup {NULL} : Consecutive(s, p)

\* C23: an accepted move from a table whose sibling groups are consecutive
\* leaves the moved node where the request says, at every depth: right
\* before the target for 'above', right after it for 'below', as the last
\* child of the target for 'inside'; the other rows keep their parent and
\* their relative order.
C23_MovePlacesNode ==
  [][(/\ resp'.op = "move"
      /\ resp'.status = "200"
      /\ GroupsConsecutive(store)) =>
       LET n == resp'.nodeId
           t == resp'.targetId
           ty == resp'.type
           group == Siblings(store', store'[n].parentId) \ {n, t}
       IN /\ ty = "above" =>
               /\ store'[n].parentId = store'[t].parentId
               /\ store'[n].orderIdx < store'[t].orderIdx
               /\ \A k \in group : ~(/\ store'[n].orderIdx <= store'[k].orderIdx
                                      /\ store'[k].orderIdx <= store'[t].orderIdx)
          /\ ty = "below" =>
               /\ store'[n].parentId = store'[t].parentId
               /\ store'[t].orderIdx < store'[n].orderIdx
               /\ \A k \in group : ~(/\ store'[t].orderIdx <= store'[k].orderIdx
                                      /\ store'[k].orderIdx <= store'[n].orderIdx)
          /\ ty = "inside" =>
               /\ store'[n].parentId = t
               /\ \A k \in Siblings(store', t) \ {n} :
                    store'[k].orderIdx < store'[n].orderIdx
          /\ \A i, j \in DOMAIN store \ {n} :
               store[i].parentId = store[j].parentId =>
                 /\ store'[i].parentId = store'[j].parentId
                 /\ store[i].orderIdx < store[j].orderIdx
                      => store'[i].orderIdx < store'[j].orderIdx]_vars

\* C24: for every move the server accepts, moveNodeLocally applied to the
\* projection of the table before the move has the same parent/child
\* membership and the same sibling order at every level as the projection
\* of the table after the move.
C24_PredictionMatchesCommit ==
  [][\A i \in DOMAIN requests :
       (/\ requests[i].op = "move"
        /\ ProjectId \notin {requests[i].nodeId, requests[i].targetId}
        /\ requests[i].phase = "sent"
        /\ i \in DOMAIN requests'
        /\ requests'[i].phase = "ok") =>
         Shape(moveNodeLocally(Projection(store), requests[i].nodeId,
                               requests[i].targetId, requests[i].type))
           = Shape(Projection(store'))]_vars

\* ------------------------------------------------------ several projects
\* the routes under arbitrary requests naming either project
ProjectsNext ==
  \/ (\E projectId \in Projects, parentId \in Ids \cup {NULL} :
        AddNode(projectId, parentId, "a")) /\ UNCHANGED <<cliVars, utilVars, stepVars>>
  \/ (\E nodeId \in Ids, targetId \in Ids, type \in Relations :
        MoveNode(nodeId, targetId, type)) /\ UNCHANGED <<cliVars, utilVars, stepVars>>
  \/ (\E id \in Ids : DeleteNode(id)) /\ UNCHANGED <<cliVars, utilVars, stepVars>>

ProjectsSpec == Init /\ [][ProjectsNext]_vars

ProjectRoots(s, pid) == {i \in DOMAIN s : s[i].parentId = NULL /\ s[i].projectId = pid}

\* the number of root-level nodes of the same project that come before node i
ProjectRank(s, i) ==
  Cardinality({k \in ProjectRoots(s, s[i].projectId) :
                 \/ s[k].orderIdx < s[i].orderIdx
                 \/ s[k].orderIdx = s[i].orderIdx /\ k < i})

\* the request answered in this step names nodes of one project only
WithinOneProject ==
  /\ resp'.op \in {"add", "move"}
  /\ resp'.status \in {"200", "201"}
  /\ resp'.targetId # NULL =>
       /\ resp'.targetId \in DOMAIN store
       /\ store[resp'.targetId].projectId = store'[resp'.nodeId].projectId

\* C25: an add or a move (with its reindexing) on nodes of one project leaves
\* orderIdx and wbsCode of every node of another project unchanged, and a
\* root-level node's orderIdx and wbsCode are its rank among the root-level
\* nodes of its own project.
C25_ProjectIsolation ==
  [][WithinOneProject =>
       LET n == resp'.nodeId
           pid == store'[n].projectId IN
       /\ \A i \in DOMAIN store :
            store[i].projectId # pid =>
              /\ store'[i].orderIdx = store[i].orderIdx
              /\ store'[i].wbsCode = store[i].wbsCode
       /\ store'[n].parentId = NULL =>
            /\ store'[n].orderIdx = ProjectRank(store', n)
            /\ store'[n].wbsCode = <<ProjectRank(store', n) + 1>>]_vars

SameProjectParent(s) ==
  \A i \in DOMAIN s :
    (s[i].parentId # NULL /\ s[i].parentId \in DOMAIN s) =>
      s[s[i].parentId].projectId = s[i].projectId

\* C26: after every add and move each node with a parent has the projectId
\* of its parent, and a move whose target belongs to another project than
\* the moved node leaves the table as it was.
C26_SameProjectParent ==
  [][resp'.op \in {"add", "move"} =>
       /\ SameProjectParent(store')
       /\ (/\ resp'.op = "move"
           /\ resp'.nodeId \in DOMAIN store
           /\ resp'.targetId \in DOMAIN store
           /\ store[resp'.nodeId].projectId # store[resp'.targetId].projectId) =>
            store' = store]_vars

\* C27: for a tree with unique ids that holds nodeId, the tree moveNodeLocally
\* returns holds exactly the ids of the tree it was given, each of them once,
\* whatever the target is (absent, or inside the moved node's subtree).
C27_MoveConservesNodes ==
  (/\ call.fn = "moveNodeLocally"
   /\ call.nodeId \in NodeIds(buildTree(flatNodes))
   /\ call.nodeId # call.targetId) =>
    /\ NodeIds(workTree) = NodeIds(buildTree(flatNodes))
    /\ Len(flattenTree(workTree)) = Len(flattenTree(buildTree(flatNodes)))

\* C28: in every table reachable through add, move and delete requests the
\* walk of generateWbsCode and the traversal of updateWbsCodesRecursive end,
\* so every add and every move is answered.
C28_RequestsTerminate ==
  resp.op \in {"add", "move"} =>
    /\ resp.status # "hang"
    /\ \A i \in DOMAIN store : ~WalkDiverges(store, i)

\* C29: for a persisted node N shown in the tree, whatever its id, the
\* add-child entry of its menu sends an insert with parentId = N.id, and the
\* delete entry of its menu is not stopped by the project-root test.
C29_RealNodeNotProjectRoot ==
  [][\A k \in DOMAIN flattenTree(nodes) :
       k > 1 =>
         LET node == flattenTree(nodes)[k] IN
         /\ handleAddChildFromMenu(k, "a") =>
              requests'[Len(requests')].targetId = node.id
         /\ (PointerFree /\ ~interactionBlocked(node.id)) => ~isProjectNode(node)]_vars

\* C30: once an add, move or delete has been answered and the tree has been
\* fetched again, the ids of flattenTree(buildTree(rows of the project)) are
\* the ids of the rows the table holds for the project: no stored node is
\* missing from the tree.
C30_NoHiddenNodes ==
  (/\ resp.op \in {"add", "move", "delete"}
   /\ resp.status \in {"200", "201"}
   /\ requests = <<>>
   /\ ~refetching
   /\ ~effectPending) =>
    /\ treeData = buildTree(getTree(store, ProjectId))
    /\ NodeIds(treeData) = {i \in DOMAIN store : store[i].projectId = ProjectId}

====
